---------------------------- MODULE Spec2Model ----------------------------
(***************************************************************************)
(* The Blockfrost reverse proxy of gs1973.github.io.  The repository holds *)
(* three versions of the worker, and a behaviour of this model is the life *)
(* of one deployed worker instance:                                        *)
(*                                                                         *)
(*   "cfw"  src/cloudflare-worker.js, lines 1-183                          *)
(*   "p0"   src/unnamed/part_000                                           *)
(*   "dg"   the worker listed in src/DEPLOYMENT_GUIDE.md, lines 226-398    *)
(*                                                                         *)
(* A handler invocation runs synchronously up to its upstream fetch (the   *)
(* action Receive), waits for the upstream, and finishes when the upstream *)
(* answers or the fetch throws (UpstreamResponds, UpstreamThrows).         *)
(*                                                                         *)
(* The two pages that call the proxy are modelled beside it, each with a   *)
(* specification of its own: the delegation module                         *)
(* src/assets/js/cardano-delegation.js (SpecDelegation) and app.js,        *)
(* src/cloudflare-worker.js lines 333-740 (SpecApp).                       *)
(*                                                                         *)
(* Strings of the program that the code takes apart (URL paths, bodies)    *)
(* are sequences: a path is a sequence of tokens, each token standing for  *)
(* one fixed run of characters, and a body is a sequence of bytes.         *)
(***************************************************************************)
EXTENDS Integers, Sequences, FiniteSets, TLC

VARIABLES
    variant,          \* which worker source is deployed: "cfw", "p0" or "dg"
    env,              \* env.BLOCKFROST_API_KEY of the deployment (Undefined: unset)
    now,              \* Date.now()
    rateLimitStore,   \* the module-level Map: key -> record
    inflight,         \* invocations suspended at `await fetch(...)`
    exch,             \* the exchange that has just finished: its request, the place
                      \* the handler returned at, its response and upstream call, and
                      \* the time and the Map before and after its synchronous part
    hist,             \* limiter decisions so far, oldest first (observation only)
    delegation,       \* cardano-delegation.js: its module-scoped variables
    calls,            \* cardano-delegation.js: the calls of delegateToPool
    app,              \* app.js: its state variables and the two containers
    connects,         \* app.js: the calls of handleWalletConnect
    delegs            \* app.js: the calls of handleDelegation

\* The worker, and the two pages that use it.
workerVars == <<variant, env, now, rateLimitStore, inflight, exch, hist>>

pageVars == <<delegation, calls, app, connects, delegs>>

vars == <<variant, env, now, rateLimitStore, inflight, exch, hist,
          delegation, calls, app, connects, delegs>>

-----------------------------------------------------------------------------
(* Bounds of the model.                                                    *)

\* RATE_LIMIT.maxRequests (cfw: 100) and RATE_LIMIT.MAX_REQUESTS (dg: 30),
\* scaled down; the limiter's code is parametric in them.
MaxRequests == 2
\* RATE_LIMIT.windowMs / RATE_LIMIT.WINDOW_MS (60000 in both), scaled down.
WindowMs == 2
\* The clock stops here.
MaxTime == 3
\* cfw keeps counting rejected requests; a key's count stops growing this
\* far above MaxRequests.
MaxOver == 2
\* Limiter decisions kept in hist.
MaxHist == 5
\* Invocations suspended at the same time (SpecConc).
MaxInflight == 2

-----------------------------------------------------------------------------
(* JavaScript values.                                                      *)

Null == "null"              \* null / undefined: headers.get() of an absent header
Undefined == "undefined"    \* an unset environment variable

Truthy(v) == v \notin {Null, Undefined, ""}

EmptyObj == [k \in {} |-> ""]

\* { ...a, ...b }: the later spread wins.
Spread(a, b) == b @@ a

\* new Response(body, { status, headers })
Response(body, status, headers) ==
    [status |-> status, body |-> body, headers |-> headers]

NullBody == [kind |-> "null"]
Text(s) == [kind |-> "text", text |-> s]
Bytes(b) == [kind |-> "bytes", bytes |-> b]
\* JSON.stringify(obj) of an object whose values are strings
JSONstringify(obj) == [kind |-> "json", obj |-> obj]

\* A well-formed UTF-8 sequence of the byte alphabet used here: an ASCII
\* byte, or a two-byte sequence (lead 0xC2..0xDF, continuation 0x80..0xBF).
IsAscii(b) == b < 128
IsLead2(b) == b >= 194 /\ b <= 223
IsCont(b) == b >= 128 /\ b <= 191

\* request.text() followed by sending the string as a fetch body: the bytes
\* are decoded as UTF-8, every ill-formed byte becomes U+FFFD, and the string
\* is encoded again (U+FFFD is EF BF BD).
RECURSIVE Utf8RoundTrip(_)
Utf8RoundTrip(b) ==
    IF b = <<>> THEN <<>>
    ELSE IF IsAscii(Head(b)) THEN <<Head(b)>> \o Utf8RoundTrip(Tail(b))
    ELSE IF IsLead2(Head(b)) /\ Len(b) >= 2 /\ IsCont(b[2])
         THEN <<b[1], b[2]>> \o Utf8RoundTrip(Tail(Tail(b)))
    ELSE <<239, 191, 189>> \o Utf8RoundTrip(Tail(b))

-----------------------------------------------------------------------------
(* Paths.  A token is a run of characters; LowerAlnum holds the tokens     *)
(* made of [0-9a-z] only.  "h64" stands for 64 hexadecimal digits.         *)

LowerAlnum == {"accounts", "stake", "pools", "pool", "tx", "txs", "submit",
               "epochs", "latest", "parameters", "addresses", "addr",
               "utxos", "metadata", "api", "1x", "h64"}

\* Pattern elements: a literal token, [0-9a-z]+ and [0-9a-f]{64}.
LowerAlnumPlus == [cls |-> "[0-9a-z]+"]
Hex64 == [cls |-> "[0-9a-f]{64}"]
Lit(s) == [cls |-> "lit", tok |-> s]

\* pattern.test(path) for an anchored pattern ^...$
RECURSIVE Test(_, _)
Test(pat, path) ==
    IF pat = <<>> THEN path = <<>>
    ELSE IF path = <<>> THEN FALSE
    ELSE LET p == Head(pat) IN
         IF p.cls = "lit" THEN p.tok = Head(path) /\ Test(Tail(pat), Tail(path))
         ELSE IF p.cls = "[0-9a-f]{64}"
              THEN Head(path) = "h64" /\ Test(Tail(pat), Tail(path))
         ELSE /\ Head(path) \in LowerAlnum
              /\ (Test(Tail(pat), Tail(path)) \/ Test(pat, Tail(path)))

\* A pattern written as a sequence of literals and classes
Lits(ts) == [i \in 1..Len(ts) |-> Lit(ts[i])]

\* str.replace('/api/', ''): the first occurrence is removed
RECURSIVE ReplaceApi(_)
ReplaceApi(path) ==
    IF Len(path) < 3 THEN path
    ELSE IF SubSeq(path, 1, 3) = <<"/", "api", "/">> THEN SubSeq(path, 4, Len(path))
    ELSE <<Head(path)>> \o ReplaceApi(Tail(path))

-----------------------------------------------------------------------------
(* What a handler invocation has done when it returns or suspends.         *)

NoCall == [issued |-> FALSE]

\* fetch(url, { method, headers, body })
Fetch(url, method, headers, body) ==
    [issued |-> TRUE, url |-> url, method |-> method, headers |-> headers,
     body |-> body]

\* The handler returned `resp` at the place `stage`, leaving the Map as `store`.
Return(stage, resp, store) ==
    [stage |-> stage, resp |-> resp, call |-> NoCall, store |-> store]

\* The handler reached `await fetch(...)`.
Await(call, store) ==
    [stage |-> "fetch", resp |-> Response(NullBody, 0, EmptyObj), call |-> call,
     store |-> store]

\* map.set(key, value)
MapSet(store, key, value) == (key :> value) @@ store

BLOCKFROST_BASE_URL == <<"https://cardano-mainnet.blockfrost.io/api/v0">>

-----------------------------------------------------------------------------
(* src/cloudflare-worker.js                                                *)

ALLOWED_ORIGINS_cfw ==
    {"https://gs1973.github.io", "https://smitblockchainops.nl",
     "http://localhost:3000"}

\* Any origin allowed, as in an open proxy.
getCORSHeaders_Wildcard(origin) ==
    [k \in {"Access-Control-Allow-Origin", "Access-Control-Allow-Credentials"}
       |-> IF k = "Access-Control-Allow-Origin" THEN "*" ELSE "true"]

getCORSHeaders(origin) ==
    IF ~Truthy(origin) THEN EmptyObj
    ELSE [k \in {"Access-Control-Allow-Origin", "Access-Control-Allow-Credentials"}
            |-> IF k = "Access-Control-Allow-Origin" THEN origin ELSE "true"]

handleCORS(request) ==
    LET origin == request.origin
        headers == Spread(getCORSHeaders(origin),
                          [k \in {"Access-Control-Allow-Methods",
                                  "Access-Control-Allow-Headers"}
                             |-> IF k = "Access-Control-Allow-Methods"
                                 THEN "GET, POST, OPTIONS" ELSE "Content-Type"])
    IN  IF Truthy(origin) /\ origin \notin ALLOWED_ORIGINS_cfw
        THEN Response(Text("Forbidden"), 403, EmptyObj)
        ELSE Response(NullBody, 204,
                      IF Truthy(origin)
                      THEN Spread(headers, "Access-Control-Max-Age" :> "86400")
                      ELSE headers)

\* Returns the Map after the call and the function's result.
\* The count compared with < instead of <=: the last request of the budget
\* is rejected.
checkRateLimit_Strict(store, clientIP, t) ==
    LET clientData == IF clientIP \in DOMAIN store THEN store[clientIP]
                      ELSE [count |-> 0, resetTime |-> t + WindowMs]
        current == IF t > clientData.resetTime
                   THEN [count |-> 0, resetTime |-> t + WindowMs]
                   ELSE clientData
        counted == [current EXCEPT !.count = @ + 1]
    IN  [store |-> MapSet(store, clientIP, counted),
         result |-> counted.count < MaxRequests]

\* The count reset on expiry, but the window left where it was.
checkRateLimit_KeepWindow(store, clientIP, t) ==
    LET clientData == IF clientIP \in DOMAIN store THEN store[clientIP]
                      ELSE [count |-> 0, resetTime |-> t + WindowMs]
        current == IF t > clientData.resetTime
                   THEN [clientData EXCEPT !.count = 0]
                   ELSE clientData
        counted == [current EXCEPT !.count = @ + 1]
    IN  [store |-> MapSet(store, clientIP, counted),
         result |-> counted.count <= MaxRequests]

checkRateLimit(store, clientIP, t) ==
    LET clientData == IF clientIP \in DOMAIN store THEN store[clientIP]
                      ELSE [count |-> 0, resetTime |-> t + WindowMs]
        current == IF t > clientData.resetTime
                   THEN [count |-> 0, resetTime |-> t + WindowMs]
                   ELSE clientData
        counted == [current EXCEPT !.count = @ + 1]
    IN  [store |-> MapSet(store, clientIP, counted),
         result |-> counted.count <= MaxRequests]

allowedPatterns ==
    { Lits(<<"accounts", "/", "stake">>) \o <<LowerAlnumPlus>>,
      Lits(<<"txs">>),
      Lits(<<"txs", "/">>) \o <<Hex64>>,
      Lits(<<"addresses", "/", "addr">>) \o <<LowerAlnumPlus>> \o Lits(<<"/", "utxos">>),
      Lits(<<"epochs", "/", "latest", "/", "parameters">>),
      Lits(<<"epochs", "/", "latest">>),
      Lits(<<"pools", "/", "pool">>) \o <<LowerAlnumPlus>>,
      Lits(<<"pools", "/", "pool">>) \o <<LowerAlnumPlus>> \o Lits(<<"/", "metadata">>) }

isAllowedEndpoint(endpoint) == \E pattern \in allowedPatterns : Test(pattern, endpoint)

\* url.pathname.replace('/api/', '')
Endpoint(pathname) == ReplaceApi(pathname)

\* The check without its `origin &&`: a request without Origin is turned away too.
originForbidden_NoNullPass(origin) == origin \notin ALLOWED_ORIGINS_cfw

\* if (origin && !ALLOWED_ORIGINS.includes(origin)) in handleRequest
originForbidden(origin) == Truthy(origin) /\ origin \notin ALLOWED_ORIGINS_cfw

\* blockfrostUrl and fetchOptions
fetchOptions(request, apiKey, endpoint) ==
    Fetch(BLOCKFROST_BASE_URL \o <<"/">> \o endpoint,
          request.method,
          [k \in {"project_id", "Content-Type"}
             |-> IF k = "project_id" THEN apiKey ELSE "application/json"],
          IF request.method \in {"POST", "PUT"}
          THEN Bytes(Utf8RoundTrip(request.body))
          ELSE NullBody)

\* The OPTIONS branch placed behind the rate limit check.
handleRequest_cfw_LatePreflight(request, apiKey, store, t) ==
    LET origin == request.origin
        limit == checkRateLimit(store, request.ip, t)
        endpoint == Endpoint(request.path)
    IN  IF ~Truthy(apiKey)
        THEN Return("config",
                    Response(Text("Configuration error: API key not set"), 500, EmptyObj),
                    store)
        ELSE IF request.method # "OPTIONS" /\ originForbidden(origin)
        THEN Return("origin",
                    Response(Text("Forbidden"), 403, "Content-Type" :> "text/plain"),
                    store)
        ELSE IF ~limit.result
        THEN Return("rate",
                    Response(Text("Rate limit exceeded"), 429, getCORSHeaders(origin)),
                    limit.store)
        ELSE IF request.method = "OPTIONS"
        THEN Return("preflight", handleCORS(request), limit.store)
        ELSE IF ~isAllowedEndpoint(endpoint)
        THEN Return("endpoint",
                    Response(Text("Endpoint not allowed"), 403, getCORSHeaders(origin)),
                    limit.store)
        ELSE Await(fetchOptions(request, apiKey, endpoint), limit.store)

\* handleRequest up to its first upstream await.
handleRequest_cfw(request, apiKey, store, t) ==
    LET origin == request.origin
        limit == checkRateLimit(store, request.ip, t)
        endpoint == Endpoint(request.path)
    IN  IF ~Truthy(apiKey)
        THEN Return("config",
                    Response(Text("Configuration error: API key not set"), 500, EmptyObj),
                    store)
        ELSE IF request.method = "OPTIONS"
        THEN Return("preflight", handleCORS(request), store)
        ELSE IF originForbidden(origin)
        THEN Return("origin",
                    Response(Text("Forbidden"), 403, "Content-Type" :> "text/plain"),
                    store)
        ELSE IF ~limit.result
        THEN Return("rate",
                    Response(Text("Rate limit exceeded"), 429, getCORSHeaders(origin)),
                    limit.store)
        ELSE IF ~isAllowedEndpoint(endpoint)
        THEN Return("endpoint",
                    Response(Text("Endpoint not allowed"), 403, getCORSHeaders(origin)),
                    limit.store)
        ELSE Await(fetchOptions(request, apiKey, endpoint), limit.store)

\* The rest of the try block: the upstream answered `response`.
relay_cfw(request, response) ==
    Response(Bytes(Utf8RoundTrip(response.body)), response.status,
             Spread(getCORSHeaders(request.origin),
                    "Content-Type" :> "application/json"))

\* catch (error)
catch_cfw(request, message) ==
    Response(JSONstringify("error" :> message), 500,
             Spread(getCORSHeaders(request.origin),
                    "Content-Type" :> "application/json"))

-----------------------------------------------------------------------------
(* src/DEPLOYMENT_GUIDE.md (worker listing) and src/unnamed/part_000.      *)
(* Both define ALLOWED_ORIGINS, CORS_HEADERS, getCorsHeaders, handleOptions *)
(* and allowedPaths with the same text.                                    *)

ALLOWED_ORIGINS ==
    {"https://gs1973.github.io", "https://smitblockchainops.nl",
     "https://www.smitblockchainops.nl"}

CORS_HEADERS ==
    [k \in {"Access-Control-Allow-Methods", "Access-Control-Allow-Headers",
            "Access-Control-Max-Age"}
       |-> CASE k = "Access-Control-Allow-Methods" -> "GET, POST, OPTIONS"
             [] k = "Access-Control-Allow-Headers" -> "Content-Type, project_id"
             [] OTHER -> "86400"]

\* The allow-list check left out: every Origin is echoed.
getCorsHeaders_Reflect(request) ==
    IF Truthy(request.origin)
    THEN Spread(CORS_HEADERS, "Access-Control-Allow-Origin" :> request.origin)
    ELSE CORS_HEADERS

getCorsHeaders(request) ==
    LET origin == request.origin
    IN  IF Truthy(origin) /\ origin \in ALLOWED_ORIGINS
        THEN Spread(CORS_HEADERS, "Access-Control-Allow-Origin" :> origin)
        ELSE CORS_HEADERS

\* corsHeaders['Access-Control-Allow-Origin'], as a condition
HasAllowOrigin(corsHeaders) ==
    /\ "Access-Control-Allow-Origin" \in DOMAIN corsHeaders
    /\ Truthy(corsHeaders["Access-Control-Allow-Origin"])

\* The preflight answered without looking at the origin.
handleOptions_NoGate(request) == Response(NullBody, 204, getCorsHeaders(request))

handleOptions(request) ==
    LET corsHeaders == getCorsHeaders(request)
    IN  IF HasAllowOrigin(corsHeaders)
        THEN Response(NullBody, 204, corsHeaders)
        ELSE Response(Text("Forbidden"), 403, EmptyObj)

\* request.headers.get('CF-Connecting-IP') || 'unknown'
getRateLimitKey(request) == IF Truthy(request.ip) THEN request.ip ELSE "unknown"

\* The window compared with >= instead of >: it ends one tick early.
isRateLimited_EarlyReset(store, key, t) ==
    IF key \notin DOMAIN store \/ t - store[key].windowStart >= WindowMs
    THEN [store |-> MapSet(store, key, [windowStart |-> t, count |-> 1]),
          result |-> FALSE]
    ELSE IF store[key].count >= MaxRequests
    THEN [store |-> store, result |-> TRUE]
    ELSE [store |-> [store EXCEPT ![key].count = @ + 1], result |-> FALSE]

\* The limit compared with > instead of >=: one request too many passes.
isRateLimited_OffByOne(store, key, t) ==
    IF key \notin DOMAIN store \/ t - store[key].windowStart > WindowMs
    THEN [store |-> MapSet(store, key, [windowStart |-> t, count |-> 1]),
          result |-> FALSE]
    ELSE IF store[key].count > MaxRequests
    THEN [store |-> store, result |-> TRUE]
    ELSE [store |-> [store EXCEPT ![key].count = @ + 1], result |-> FALSE]

\* Returns the Map after the call and the function's result.
isRateLimited(store, key, t) ==
    IF key \notin DOMAIN store \/ t - store[key].windowStart > WindowMs
    THEN [store |-> MapSet(store, key, [windowStart |-> t, count |-> 1]),
          result |-> FALSE]
    ELSE IF store[key].count >= MaxRequests
    THEN [store |-> store, result |-> TRUE]
    ELSE [store |-> [store EXCEPT ![key].count = @ + 1], result |-> FALSE]

allowedPaths ==
    { Lits(<<"/", "accounts", "/", "stake">>) \o <<LowerAlnumPlus>>,
      Lits(<<"/", "pools", "/", "pool">>) \o <<LowerAlnumPlus>>,
      Lits(<<"/", "tx", "/", "submit">>),
      Lits(<<"/", "epochs", "/", "latest", "/", "parameters">>),
      Lits(<<"/", "addresses", "/">>) \o <<LowerAlnumPlus>> \o Lits(<<"/", "utxos">>) }

isAllowed(path) == \E pattern \in allowedPaths : Test(pattern, path)

\* The project_id taken from the request when the client sends one.
blockfrostHeaders_ClientKey(request, apiKey) ==
    [k \in {"project_id", "Content-Type"}
       |-> IF k = "project_id"
           THEN (IF Truthy(request.projectId) THEN request.projectId ELSE apiKey)
           ELSE IF request.path = <<"/", "tx", "/", "submit">> /\ request.method = "POST"
                THEN "application/cbor"
                ELSE "application/json"]

\* blockfrostHeaders
blockfrostHeaders(request, apiKey) ==
    [k \in {"project_id", "Content-Type"}
       |-> IF k = "project_id" THEN apiKey
           ELSE IF request.path = <<"/", "tx", "/", "submit">> /\ request.method = "POST"
                THEN "application/cbor"
                ELSE "application/json"]

\* The fetch both workers issue for an allowed request.
blockfrostFetch(request, apiKey) ==
    Fetch(BLOCKFROST_BASE_URL \o request.path,
          request.method,
          blockfrostHeaders(request, apiKey),
          IF request.method = "POST" THEN Bytes(request.body) ELSE NullBody)

JsonWithCors(obj, status, corsHeaders) ==
    Response(JSONstringify(obj), status,
             Spread("Content-Type" :> "application/json", corsHeaders))

\* The handler with the rate limit checked ahead of the origin.
handleRequest_dg_LimitFirst(request, apiKey, store, t) ==
    LET corsHeaders == getCorsHeaders(request)
        limit == isRateLimited(store, getRateLimitKey(request), t)
    IN  IF request.method = "OPTIONS"
        THEN Return("preflight", handleOptions(request), store)
        ELSE IF limit.result
        THEN Return("rate", JsonWithCors("error" :> "Too many requests. Please try again later.",
                                         429, corsHeaders),
                    limit.store)
        ELSE IF ~HasAllowOrigin(corsHeaders)
        THEN Return("origin", Response(Text("Forbidden"), 403, EmptyObj), limit.store)
        ELSE IF ~isAllowed(request.path)
        THEN Return("endpoint",
                    JsonWithCors("error" :> "Endpoint not allowed", 403, corsHeaders),
                    limit.store)
        ELSE Await(blockfrostFetch(request, apiKey), limit.store)

\* One record for all clients: the limiter called with a constant key.
handleRequest_dg_SharedKey(request, apiKey, store, t) ==
    LET corsHeaders == getCorsHeaders(request)
        limit == isRateLimited(store, "unknown", t)
    IN  IF request.method = "OPTIONS"
        THEN Return("preflight", handleOptions(request), store)
        ELSE IF ~HasAllowOrigin(corsHeaders)
        THEN Return("origin", Response(Text("Forbidden"), 403, EmptyObj), store)
        ELSE IF limit.result
        THEN Return("rate", JsonWithCors("error" :> "Too many requests. Please try again later.",
                                         429, corsHeaders),
                    limit.store)
        ELSE IF ~isAllowed(request.path)
        THEN Return("endpoint",
                    JsonWithCors("error" :> "Endpoint not allowed", 403, corsHeaders),
                    limit.store)
        ELSE Await(blockfrostFetch(request, apiKey), limit.store)

\* DEPLOYMENT_GUIDE.md: fetch (the OPTIONS branch) and handleRequest up to
\* its upstream await.
handleRequest_dg(request, apiKey, store, t) ==
    LET corsHeaders == getCorsHeaders(request)
        limit == isRateLimited(store, getRateLimitKey(request), t)
    IN  IF request.method = "OPTIONS"
        THEN Return("preflight", handleOptions(request), store)
        ELSE IF ~HasAllowOrigin(corsHeaders)
        THEN Return("origin", Response(Text("Forbidden"), 403, EmptyObj), store)
        ELSE IF limit.result
        THEN Return("rate",
                    Response(JSONstringify("error" :> "Too many requests. Please try again later."),
                             429,
                             Spread([k \in {"Content-Type", "Retry-After"}
                                       |-> IF k = "Retry-After" THEN "60"
                                           ELSE "application/json"],
                                    corsHeaders)),
                    limit.store)
        ELSE IF ~isAllowed(request.path)
        THEN Return("endpoint",
                    JsonWithCors("error" :> "Endpoint not allowed", 403, corsHeaders),
                    limit.store)
        ELSE Await(blockfrostFetch(request, apiKey), limit.store)

\* part_000: the same without the rate limiter.
handleRequest_p0(request, apiKey, store, t) ==
    LET corsHeaders == getCorsHeaders(request)
    IN  IF request.method = "OPTIONS"
        THEN Return("preflight", handleOptions(request), store)
        ELSE IF ~HasAllowOrigin(corsHeaders)
        THEN Return("origin", Response(Text("Forbidden"), 403, EmptyObj), store)
        ELSE IF ~isAllowed(request.path)
        THEN Return("endpoint",
                    JsonWithCors("error" :> "Endpoint not allowed", 403, corsHeaders),
                    store)
        ELSE Await(blockfrostFetch(request, apiKey), store)

\* The headers of the upstream request spread into the response.
relay_WithRequestHeaders(request, response) ==
    Response(Bytes(Utf8RoundTrip(response.body)), response.status,
             Spread(blockfrostHeaders(request, env), getCorsHeaders(request)))

\* The upstream answered `response`: both workers relay it the same way.
relay(request, response) ==
    Response(Bytes(Utf8RoundTrip(response.body)), response.status,
             Spread("Content-Type" :>
                        (IF Truthy(response.contentType) THEN response.contentType
                         ELSE "application/json"),
                    getCorsHeaders(request)))

\* catch (error), DEPLOYMENT_GUIDE.md
catch_dg(request, message) ==
    JsonWithCors("error" :> "An error occurred while processing your request.",
                 500, getCorsHeaders(request))

\* catch (error), part_000
catch_p0(request, message) ==
    JsonWithCors([k \in {"error", "message"}
                    |-> IF k = "error" THEN "Proxy error" ELSE message],
                 500, getCorsHeaders(request))

-----------------------------------------------------------------------------
(* Inputs.                                                                 *)

Variants == {"cfw", "p0", "dg"}

SECRET == "mainnet-project-id"
Envs == {Undefined, SECRET}

Methods == {"GET", "POST", "PUT", "DELETE", "OPTIONS"}

Origins == {Null, "https://gs1973.github.io", "http://localhost:3000",
            "https://www.smitblockchainops.nl", "https://disallowed.example"}

IPs == {Null, "203.0.113.7", "198.51.100.9"}

\* Request bodies: "A", and a CBOR array header (0x82) followed by "A"
Bodies == {<<65>>, <<130, 65>>}

\* A project_id header the client may send along
ClientProjectIds == {Null, "attacker-project-id"}

Paths ==
    { <<"/", "accounts", "/", "stake", "1x">>,
      <<"/", "accounts">>,
      <<"/", "Accounts", "/", "stake", "1x">>,
      <<"/", "pools", "/", "pool", "1x">>,
      <<"/", "pools">>,
      <<"/", "pools", "/", "pool", "1x", "/", "metadata">>,
      <<"/", "tx", "/", "submit">>,
      <<"/", "TX", "/", "SUBMIT">>,
      <<"/", "epochs", "/", "latest", "/", "parameters">>,
      <<"/", "addresses", "/", "addr", "1x", "/", "utxos">>,
      <<"/", "api", "/", "accounts", "/", "stake", "1x">>,
      <<"/", "api", "/", "accounts">>,
      <<"/", "api", "/", "txs">>,
      <<"/", "api", "/", "TXS">>,
      <<"/", "api", "/", "txs", "/", "h64">>,
      <<"/", "api", "/", "pools", "/", "pool", "1x", "/", "metadata">>,
      <<"/", "api", "/", "epochs", "/", "latest">>,
      <<"/", "api", "/", "addresses", "/", "addr", "1x", "/", "utxos">> }

Request(method, origin, ip, path, body, projectId) ==
    [method |-> method, origin |-> origin, ip |-> ip, path |-> path,
     body |-> body, projectId |-> projectId]

RequestsOf(methods, origins, ips, paths) ==
    { Request(m, o, i, p, b, c) :
        m \in methods, o \in origins, i \in ips, p \in paths,
        b \in Bodies \cup {<<>>}, c \in ClientProjectIds }

\* Only POST and PUT requests carry a body.
WellFormed(request) == (request.body # <<>>) <=> (request.method \in {"POST", "PUT"})

Requests ==
    { r \in RequestsOf(Methods, Origins, {Null, "203.0.113.7"}, Paths) : WellFormed(r) }

\* Upstream answers: status, body bytes ("{}", a two-byte character, and a
\* byte that is no UTF-8), Content-Type header (Null: none)
UpstreamResponses ==
    [status : {200, 404}, body : {<<123, 125>>, <<195, 169>>, <<255>>},
     contentType : {Null, "application/json; charset=utf-8"}]

\* error.message of a failed fetch
ErrorMessages == {"Network connection lost.", "internal error; reference = k3s9"}

-----------------------------------------------------------------------------
(* cardano-delegation.js: the delegation module of the page.  A call of    *)
(* delegateToPool runs from one await to the next without interruption;    *)
(* at an await any other call may run.                                     *)

\* Calls of delegateToPool in one behaviour.
MaxCalls == 2

\* A string the code searches is the sequence of its parts; includes() looks
\* for one part.
Includes(message, part) == \E i \in 1..Len(message) : message[i] = part

\* The wallets of the page's buttons
DelegationWallets == {"eternl", "nami"}

\* A thrown value: an Error with its message, or undefined, which has none.
Error(message) == [value |-> "Error", message |-> message]

UndefinedThrown == [value |-> Undefined, message |-> <<>>]

\* What an awaited wallet or library call rejects with: an Error, or nothing
\* at all (reject(undefined)).
Rejections ==
    { Error(<<"(", "StakeKeyNotRegistered", ")">>),
      Error(<<"User declined", " to sign tx">>),
      UndefinedThrown }

\* The module-scoped variables when the script has run.
ModuleLoaded ==
    [connectedWallet |-> Null, walletApi |-> Null, lucid |-> Null,
     isDelegating |-> FALSE]

\* The places a call of delegateToPool waits at: each is an await.
Active == {"lucidNew", "rewardAddress", "complete", "sign", "submit"}

\* The calls between `isDelegating = true` and their return.
Running(cs) == { c \in DOMAIN cs : cs[c].pc \in Active }

\* No call yet: pc is the place of a call, attempt the transaction attempt
\* it is in (2: with registerStake), message the last message it has shown,
\* did what it has done of a transaction, during the calls that were
\* running when it was made.
NoCalls ==
    [c \in 1..MaxCalls |->
        [pc |-> "idle", attempt |-> 1, message |-> Null, did |-> {}, during |-> {}]]

\* The flag is never tested: every call of a connected page goes ahead.
delegateToPool_NoGuard(module) ==
    IF module.lucid = Null \/ module.walletApi = Null
    THEN [pc |-> "notConnected", isDelegating |-> module.isDelegating,
          message |-> "Please connect your wallet first"]
    ELSE [pc |-> "lucidNew", isDelegating |-> TRUE,
          message |-> "Preparing delegation transaction..."]

\* delegateToPool up to its first await.
delegateToPool(module) ==
    IF module.lucid = Null \/ module.walletApi = Null
    THEN [pc |-> "notConnected", isDelegating |-> module.isDelegating,
          message |-> "Please connect your wallet first"]
    ELSE IF module.isDelegating
    THEN [pc |-> "refused", isDelegating |-> TRUE,
          message |-> "Delegation already in progress. Please wait..."]
    ELSE [pc |-> "lucidNew", isDelegating |-> TRUE,
          message |-> "Preparing delegation transaction..."]

\* The catch block forgets the flag.
catchDelegation_FlagKept(error, shown) ==
    [isDelegating |-> TRUE,
     message |-> IF error.value = Undefined THEN shown
                 ELSE IF Includes(error.message, "User declined")
                 THEN "Transaction cancelled by user."
                 ELSE "Delegation failed: "]

\* The catch block of delegateToPool: the flag first, then the message; an
\* error without properties makes `error.message` throw, after the flag is
\* reset and before any message is shown (shown: the message on the page).
catchDelegation(error, shown) ==
    [isDelegating |-> FALSE,
     message |-> IF error.value = Undefined THEN shown
                 ELSE IF Includes(error.message, "User declined")
                 THEN "Transaction cancelled by user."
                 ELSE "Delegation failed: "]

\* catch (firstError): a second attempt with registerStake when the message
\* tells of an unregistered stake key; `firstError.message` of undefined
\* throws a TypeError.
TriesRegistration(firstError) ==
    /\ firstError.value # Undefined
    /\ \/ Includes(firstError.message, "not registered")
       \/ Includes(firstError.message, "StakeKeyNotRegistered")

Rethrown(firstError) ==
    IF firstError.value = Undefined
    THEN Error(<<"Cannot read properties of undefined">>)
    ELSE firstError

-----------------------------------------------------------------------------
(* app.js (src/cloudflare-worker.js, lines 333-740): the page's state, its *)
(* proxy calls and the synchronous parts of its handlers.                  *)

\* Calls of handleWalletConnect and of handleDelegation in one behaviour.
MaxConnects == 2
MaxDelegs == 2

\* CONFIG.POOL_ID
POOL_ID == "pool1m83drqwlugdt9jn7jkz8hx3pne53acfkd539d9cj8yr92dr4k9y"

\* The wallet buttons, and the wallets window.cardano has.
WALLETS == {"eternl", "lace", "typhon"}

InstalledWallets == {"eternl", "lace"}

isWalletInstalled(walletName) == walletName \in InstalledWallets

\* The API object enable() of a wallet resolves to, and the stake address
\* its getRewardAddresses() leads to.
ApiOf(walletName) == [wallet |-> walletName]

NoApi == [wallet |-> Null]

StakeOf(api) == <<"stake1", api.wallet>>

\* null where the code expects an address
NoAddress == <<>>

\* No object where the code expects one.
NullObject == [null |-> TRUE]

\* let connectedWallet, walletApi, currentStakeAddress,
\* currentDelegationStatus, and the class `visible` of the two containers;
\* statusOf is the stake address currentDelegationStatus was fetched for.
AppLoaded ==
    [connectedWallet |-> Null, walletApi |-> NoApi, currentStakeAddress |-> NoAddress,
     currentDelegationStatus |-> NullObject, statusOf |-> NoAddress,
     delegateActionVisible |-> FALSE, walletContainerVisible |-> FALSE]

\* What the proxy answers a lookup with: the status, whether the body is
\* JSON, and of a JSON body its message and its pool_id (<<>>, Null: none).
ProxyResponse(status, json, message, pool_id) ==
    [status |-> status, json |-> json, message |-> message, pool_id |-> pool_id]

NoResponse == ProxyResponse("none", FALSE, <<>>, Null)

AccountResponses ==
    { ProxyResponse("200", TRUE, <<>>, POOL_ID),
      ProxyResponse("200", TRUE, <<>>, "pool1other"),
      ProxyResponse("200", TRUE, <<>>, Null),
      ProxyResponse("404", FALSE, <<>>, Null),
      ProxyResponse("404", TRUE, <<>>, Null),
      ProxyResponse("404", TRUE, <<"The requested component has not been found.">>, Null),
      ProxyResponse("429", TRUE, <<>>, Null) }

\* fetch() itself fails.
NetworkFailure == ProxyResponse("failed", FALSE, <<"Failed to fetch">>, Null)

\* The result of an async function: what it returns or what it throws.
Returns(value) == [threw |-> FALSE, value |-> value, error |-> Error(<<>>)]

Throws(error) == [threw |-> TRUE, value |-> NullObject, error |-> error]

\* fetchFromProxy, given what fetch() came to.
fetchFromProxy(response) ==
    IF response = NetworkFailure THEN Throws(Error(response.message))
    ELSE IF response.status # "200"
    THEN LET errorData == IF response.json THEN response.message ELSE <<>>
         IN  Throws(Error(IF errorData # <<>> THEN errorData
                          ELSE <<"API error: ", response.status>>))
    ELSE Returns(response)

\* The status objects of checkDelegationStatus
Status(delegated, toOurPool, currentPool, newAccount) ==
    [delegated |-> delegated, toOurPool |-> toOurPool, currentPool |-> currentPool,
     newAccount |-> newAccount]

\* checkDelegationStatus, given what the fetch of fetchFromProxy came to
\* (absent properties of the status object: FALSE, Null).
checkDelegationStatus(response) ==
    LET accountInfo == fetchFromProxy(response)
    IN  IF accountInfo.threw
        THEN IF Includes(accountInfo.error.message, "404")
             THEN Returns(Status(FALSE, FALSE, Null, TRUE))
             ELSE accountInfo
        ELSE IF accountInfo.value.pool_id = POOL_ID
        THEN Returns(Status(TRUE, TRUE, Null, FALSE))
        ELSE IF accountInfo.value.pool_id # Null
        THEN Returns(Status(TRUE, FALSE, accountInfo.value.pool_id, FALSE))
        ELSE Returns(Status(FALSE, FALSE, Null, FALSE))

\* No call of handleWalletConnect yet: pc is the place of a call, asked the
\* API whose getRewardAddresses it called, stake the address it looked up,
\* response what the proxy answered the lookup with.
NoConnects ==
    [c \in 1..MaxConnects |->
        [pc |-> "idle", walletName |-> Null, asked |-> NoApi, stake |-> NoAddress,
         response |-> NoResponse]]

\* No call of handleDelegation yet: stakeAddress and alreadyRegistered are
\* the arguments of buildAndSignDelegation, statusOf the stake address the
\* status behind alreadyRegistered was fetched for, builtWith the walletApi
\* the transaction is built from.
NoDelegs ==
    [d \in 1..MaxDelegs |->
        [pc |-> "idle", stakeAddress |-> NoAddress, alreadyRegistered |-> FALSE,
         statusOf |-> NoAddress, builtWith |-> NoApi]]

-----------------------------------------------------------------------------
(* The state machine.                                                      *)

NoExchange == [stage |-> "none"]

Init ==
    /\ variant \in Variants
    /\ env \in Envs
    /\ now = 0
    /\ rateLimitStore = EmptyObj
    /\ inflight = {}
    /\ exch = NoExchange
    /\ hist = <<>>
    /\ delegation = ModuleLoaded
    /\ calls = NoCalls
    /\ app = AppLoaded
    /\ connects = NoConnects
    /\ delegs = NoDelegs

\* The deployed worker's handler, up to its upstream await.
handleAt(request, store, t) ==
    CASE variant = "cfw" -> handleRequest_cfw(request, env, store, t)
      [] variant = "dg" -> handleRequest_dg(request, env, store, t)
      [] OTHER -> handleRequest_p0(request, env, store, t)

\* The Map read before a switch point and written back after it: an
\* invocation decides on the Map as a suspended invocation found it.
handle_StaleRead(request) ==
    handleAt(request,
             IF inflight = {} THEN rateLimitStore
             ELSE (CHOOSE inv \in inflight : TRUE).before,
             now)

\* The synchronous part of an invocation works on the Map as it is now: no
\* await lies between the limiter's read and its write.
handle(request) == handleAt(request, rateLimitStore, now)

\* The key the deployed worker's limiter counts a request under.
LimiterKey(request) == IF variant = "cfw" THEN request.ip ELSE getRateLimitKey(request)

\* The stages that lie behind the limiter.
PastLimiter == {"endpoint", "fetch"}

Counted(stage) == variant # "p0" /\ stage \in PastLimiter \cup {"rate"}

\* No count of the Map has grown beyond the cap.
WithinCap(store) == \A k \in DOMAIN store : store[k].count <= MaxRequests + MaxOver

\* A request arrives and its handler runs until it returns or awaits the upstream.
Receive(request, track) ==
    LET out == handle(request)
    IN  /\ WithinCap(out.store)
        /\ rateLimitStore' = out.store
        /\ inflight' = IF out.call.issued
                       THEN inflight \cup {[req |-> request, stage |-> out.stage,
                                            resp |-> out.resp, call |-> out.call,
                                            at |-> now, before |-> rateLimitStore,
                                            after |-> out.store]}
                       ELSE inflight
        /\ exch' = IF out.call.issued THEN NoExchange
                   ELSE [req |-> request, stage |-> out.stage, resp |-> out.resp,
                         call |-> NoCall, at |-> now, before |-> rateLimitStore,
                         after |-> out.store]
        /\ hist' = IF track /\ Counted(out.stage)
                   THEN Append(hist, [key |-> LimiterKey(request), t |-> now,
                                      ok |-> out.stage # "rate"])
                   ELSE hist
        /\ track => Len(hist) < MaxHist
        /\ UNCHANGED <<variant, env, now>>
        /\ UNCHANGED pageVars

\* The upstream answers a suspended invocation, which relays the answer.
UpstreamResponds(inv, response) ==
    /\ inv \in inflight
    /\ inflight' = inflight \ {inv}
    /\ exch' = [req |-> inv.req, stage |-> "relay",   \* up: the upstream's answer
                resp |-> IF variant = "cfw" THEN relay_cfw(inv.req, response)
                         ELSE relay(inv.req, response),
                call |-> inv.call, at |-> inv.at, before |-> inv.before,
                after |-> inv.after, up |-> response]
    /\ UNCHANGED <<variant, env, now, rateLimitStore, hist>>
    /\ UNCHANGED pageVars

\* The fetch of a suspended invocation throws and its catch block answers.
UpstreamThrows(inv, message) ==
    /\ inv \in inflight
    /\ inflight' = inflight \ {inv}
    /\ exch' = [req |-> inv.req, stage |-> "catch",
                resp |-> CASE variant = "cfw" -> catch_cfw(inv.req, message)
                           [] variant = "dg" -> catch_dg(inv.req, message)
                           [] OTHER -> catch_p0(inv.req, message),
                call |-> inv.call, at |-> inv.at, before |-> inv.before,
                after |-> inv.after]
    /\ UNCHANGED <<variant, env, now, rateLimitStore, hist>>
    /\ UNCHANGED pageVars

\* The runtime has sent the finished response to the client.
Deliver ==
    /\ exch # NoExchange
    /\ exch' = NoExchange
    /\ UNCHANGED <<variant, env, now, rateLimitStore, inflight, hist>>
    /\ UNCHANGED pageVars

\* Time passes.
Tick ==
    /\ now < MaxTime
    /\ now' = now + 1
    /\ exch' = NoExchange
    /\ UNCHANGED <<variant, env, rateLimitStore, inflight, hist>>
    /\ UNCHANGED pageVars

\* One exchange at a time, any request, within one limiter window.
Idle == inflight = {} /\ exch = NoExchange

Next ==
    \/ Idle /\ \E request \in Requests : Receive(request, FALSE)
    \/ \E inv \in inflight, response \in UpstreamResponses : UpstreamResponds(inv, response)
    \/ \E inv \in inflight, message \in ErrorMessages : UpstreamThrows(inv, message)
    \/ Deliver

Spec == Init /\ [][Next]_vars

\* The limiter at work: requests of an allowed origin from two addresses, one
\* exchange at a time, over several windows, every limiter decision kept in hist.
RateRequests ==
    { Request("GET", "https://gs1973.github.io", ip, path, <<>>, Null) :
        ip \in {"203.0.113.7", "198.51.100.9"},
        path \in { <<"/", "accounts", "/", "stake", "1x">>,
                   <<"/", "api", "/", "accounts", "/", "stake", "1x">> } }

RateResponses ==
    { r \in UpstreamResponses :
        r.status = 200 /\ r.contentType = Null /\ r.body = <<123, 125>> }

RateErrorMessages == {"Network connection lost."}

NextRate ==
    \/ Idle /\ \E request \in RateRequests : Receive(request, TRUE)
    \/ \E inv \in inflight, response \in RateResponses : UpstreamResponds(inv, response)
    \/ \E inv \in inflight, message \in RateErrorMessages : UpstreamThrows(inv, message)
    \/ Deliver
    \/ Idle /\ Tick

\* A configured deployment: the limiters do not read the credential.
InitRate == Init /\ env = SECRET

SpecRate == InitRate /\ [][NextRate]_vars

\* Concurrent invocations: a request may arrive, and time may pass, while
\* others are suspended at their upstream fetch; an invocation runs from one
\* await to the next without interruption.
Delivered == exch = NoExchange

\* Requests of one address
ConcRequests == { r \in RateRequests : r.ip = "203.0.113.7" }

NextConc ==
    \/ /\ Delivered
       /\ \E request \in ConcRequests : Receive(request, TRUE)
       /\ Cardinality(inflight') <= MaxInflight
    \/ Delivered /\ \E inv \in inflight, response \in RateResponses :
                        UpstreamResponds(inv, response)
    \/ Delivered /\ \E inv \in inflight, message \in RateErrorMessages :
                        UpstreamThrows(inv, message)
    \/ Deliver
    \/ Delivered /\ Tick

SpecConc == InitRate /\ [][NextConc]_vars

-----------------------------------------------------------------------------
(* Vocabulary of the properties.                                           *)

ACAO == "Access-Control-Allow-Origin"

\* The allow-list of the deployed worker
AllowList == IF variant = "cfw" THEN ALLOWED_ORIGINS_cfw ELSE ALLOWED_ORIGINS

\* The Origin header is present and not on the allow-list.
ForeignOrigin(request) == request.origin # Null /\ request.origin \notin AllowList

\* The Origin header is present and on the allow-list.
ListedOrigin(request) == request.origin # Null /\ request.origin \in AllowList

\* cloudflare-worker.js answers every request with its configuration error.
Unconfigured == variant = "cfw" /\ env = Undefined

\* Every invocation in the state: the suspended ones and the one just finished.
Handled == inflight \cup (IF exch = NoExchange THEN {} ELSE {exch})

Finished == exch # NoExchange

\* What the origin gate of the deployed worker lets through: cloudflare-worker.js
\* turns away a foreign Origin only, the other two want a listed Origin.
GateAccepts(request) ==
    IF variant = "cfw" THEN ~ForeignOrigin(request) ELSE ListedOrigin(request)

\* The key's window, as the Map had it, is still open at time t.
WindowOpen(record, t) ==
    IF variant = "cfw" THEN t <= record.resetTime
    ELSE t - record.windowStart <= WindowMs

\* The key has budget left at time t, given the Map before the request.
LimiterAccepts(before, key, t) ==
    \/ key \notin DOMAIN before
    \/ ~WindowOpen(before[key], t)
    \/ before[key].count < MaxRequests

\* The path is on the whitelist of the deployed worker.
FilterAccepts(request) ==
    IF variant = "cfw" THEN isAllowedEndpoint(Endpoint(request.path))
    ELSE isAllowed(request.path)

-----------------------------------------------------------------------------
(* C1 (as stated): every request with a foreign Origin, OPTIONS included,  *)
(* is answered 403 without an Access-Control-Allow-Origin header.          *)
C1_Original ==
    (Finished /\ ForeignOrigin(exch.req)) =>
        /\ exch.resp.status = 403
        /\ ACAO \notin DOMAIN exch.resp.headers

(* C1 (amended): a request with a foreign Origin is never forwarded and    *)
(* its response has no Access-Control-Allow-Origin header; its status is   *)
(* 403, except that cloudflare-worker.js without BLOCKFROST_API_KEY        *)
(* answers 500 from its configuration check, which comes first.            *)
C1_ForeignOriginRefused ==
    /\ \A inv \in inflight : ~ForeignOrigin(inv.req)
    /\ (Finished /\ ForeignOrigin(exch.req)) =>
          /\ ACAO \notin DOMAIN exch.resp.headers
          /\ exch.resp.status = (IF Unconfigured THEN 500 ELSE 403)
          /\ ~exch.call.issued

C1_Witness ==
    /\ Finished
    /\ ForeignOrigin(exch.req)
    /\ exch.req.method = "OPTIONS"
    /\ exch.resp.status = 403

-----------------------------------------------------------------------------
(* C2 (as stated): the gate lets a request through iff its Origin is       *)
(* present and on the allow-list; a request without Origin gets 403 and is *)
(* neither rate-counted nor forwarded.                                     *)
C2_Original ==
    /\ \A inv \in inflight : ListedOrigin(inv.req)
    /\ (Finished /\ exch.req.method # "OPTIONS" /\ ~Unconfigured) =>
          IF ListedOrigin(exch.req)
          THEN exch.stage # "origin"
          ELSE /\ exch.stage = "origin"
               /\ exch.resp.status = 403
               /\ exch.after = exch.before
               /\ ~exch.call.issued

(* C2 (amended): in the workers of DEPLOYMENT_GUIDE.md and part_000 the    *)
(* gate lets a request through iff its Origin is present and on the list,  *)
(* and a request without Origin gets 403, uncounted and not forwarded; in   *)
(* cloudflare-worker.js (once configured) the gate turns away exactly the   *)
(* requests whose Origin is present and not on the list, so a request       *)
(* without Origin passes: it is rate-counted, and its responses carry no    *)
(* Access-Control-Allow-Origin header.                                      *)
C2_OriginGate ==
    /\ \A inv \in inflight : GateAccepts(inv.req)
    /\ (Finished /\ exch.req.method # "OPTIONS" /\ ~Unconfigured) =>
          /\ (exch.stage = "origin") <=> ~GateAccepts(exch.req)
          /\ ~GateAccepts(exch.req) =>
                /\ exch.resp.status = 403
                /\ exch.after = exch.before
                /\ ~exch.call.issued
                /\ ACAO \notin DOMAIN exch.resp.headers
          /\ (variant = "cfw" /\ exch.req.origin = Null) =>
                /\ exch.after # exch.before
                /\ ACAO \notin DOMAIN exch.resp.headers

\* cloudflare-worker.js has forwarded a request that had no Origin header.
C2_Witness ==
    /\ Finished
    /\ variant = "cfw"
    /\ exch.req.origin = Null
    /\ exch.call.issued
    /\ exch.stage = "relay"

-----------------------------------------------------------------------------
(* C3: a request other than OPTIONS passes the origin gate, the rate       *)
(* limiter, the endpoint filter and the forwarder in this order and stops  *)
(* at the first that rejects it: an upstream call is issued only for a     *)
(* request all three checks accept, a request the gate rejects leaves the  *)
(* Map as it was, and a rate-limited or endpoint-rejected request causes   *)
(* no upstream call.  (part_000 has no limiter: every key has budget.)     *)
C3_Pipeline ==
    \A x \in Handled :
        x.req.method # "OPTIONS" =>
            LET gate == GateAccepts(x.req)
                limiter == LimiterAccepts(x.before, LimiterKey(x.req), x.at)
                filter == FilterAccepts(x.req)
            IN  /\ x.call.issued => (gate /\ limiter /\ filter)
                /\ ~gate => x.after = x.before
                /\ x.resp.status = 429 => ~x.call.issued
                /\ ~filter => ~x.call.issued
                /\ ~Unconfigured =>
                      /\ ~gate => (x.stage = "origin" /\ x.resp.status = 403)
                      /\ (gate /\ ~limiter) => (x.stage = "rate" /\ x.resp.status = 429)
                      /\ (gate /\ limiter /\ ~filter) =>
                            (x.stage = "endpoint" /\ x.resp.status = 403)
                      /\ (gate /\ limiter /\ filter) => x.call.issued

\* A request over its budget for a path off the whitelist: the limiter answers.
C3_Witness ==
    /\ Finished
    /\ exch.stage = "rate"
    /\ exch.resp.status = 429
    /\ ~FilterAccepts(exch.req)
    /\ exch.after # exch.before

-----------------------------------------------------------------------------
(* Fixed-window counting, read off the history of limiter decisions.       *)

\* The decisions about key k, oldest first
RECURSIVE EventsOf(_, _)
EventsOf(k, h) ==
    IF h = <<>> THEN <<>>
    ELSE IF Head(h).key = k THEN <<Head(h)>> \o EventsOf(k, Tail(h))
    ELSE EventsOf(k, Tail(h))

\* The window the i-th request of a key falls in and its place in it: the
\* key's first request opens a window, and so does the first one that comes
\* more than WindowMs after the start of the window before.
RECURSIVE Place(_, _)
Place(es, i) ==
    IF i = 1 THEN [start |-> es[1].t, n |-> 1]
    ELSE LET p == Place(es, i - 1)
         IN  IF es[i].t > p.start + WindowMs
             THEN [start |-> es[i].t, n |-> 1]
             ELSE [start |-> p.start, n |-> p.n + 1]

HistKeys == { hist[i].key : i \in 1..Len(hist) }

(* C4: of the requests of one key inside one window the first MaxRequests  *)
(* pass the limiter and every later one is rejected, with status 429; the  *)
(* first request that comes more than WindowMs after the window's start    *)
(* opens a new window as its first request and passes, however many were   *)
(* rejected before it.                                                     *)
C4_FixedWindow ==
    /\ \A k \in HistKeys :
          LET es == EventsOf(k, hist)
          IN  \A i \in 1..Len(es) : es[i].ok <=> (Place(es, i).n <= MaxRequests)
    /\ (Finished /\ Counted(exch.stage)) =>
          /\ hist # <<>>
          /\ hist[Len(hist)].key = LimiterKey(exch.req)
          /\ (exch.stage = "rate") <=> ~hist[Len(hist)].ok
          /\ (exch.stage = "rate") => exch.resp.status = 429

\* One key: MaxRequests passed, the next rejected, and after the window a
\* request passed again.
C4_Witness ==
    \E k \in HistKeys :
        LET es == EventsOf(k, hist)
        IN  /\ Len(es) >= MaxRequests + 2
            /\ \A i \in 1..MaxRequests : es[i].ok /\ Place(es, i).start = es[1].t
            /\ ~es[MaxRequests + 1].ok
            /\ es[MaxRequests + 2].ok
            /\ Place(es, MaxRequests + 2).n = 1

-----------------------------------------------------------------------------
\* The transaction submission endpoint of the deployed worker
IsSubmission(request) ==
    IF variant = "cfw" THEN request.path = <<"/", "api", "/", "txs">>
    ELSE request.path = <<"/", "tx", "/", "submit">>

\* The request reached the endpoint filter.
ReachesFilter(x) ==
    /\ x.req.method # "OPTIONS"
    /\ ~Unconfigured
    /\ GateAccepts(x.req)
    /\ LimiterAccepts(x.before, LimiterKey(x.req), x.at)

(* C5: a request for a path off the whitelist, whatever its method, is     *)
(* answered 403 with the JSON body {"error":"Endpoint not allowed"} and is *)
(* not forwarded.                                                          *)
C5_ClosedWhitelist ==
    \A x \in Handled :
        (ReachesFilter(x) /\ ~FilterAccepts(x.req)) =>
            /\ x.resp.status = 403
            /\ x.resp.body = JSONstringify("error" :> "Endpoint not allowed")
            /\ ~x.call.issued

(* C6: a request is forwarded only with the method that fits its path:     *)
(* POST for the submission endpoint, GET for every lookup.                 *)
C6_MethodFits ==
    \A x \in Handled :
        x.call.issued =>
            x.req.method = (IF IsSubmission(x.req) THEN "POST" ELSE "GET")

-----------------------------------------------------------------------------
\* The path the filter validated, as the upstream path: cloudflare-worker.js
\* validates the path without its leading "/api".
ValidatedPath(request) ==
    IF variant = "cfw" THEN SubSeq(request.path, 3, Len(request.path))
    ELSE request.path

(* C7: the upstream URL is the base URL followed by the validated path,    *)
(* the upstream method is the inbound method, and the upstream headers are *)
(* project_id, with the credential of the environment, and Content-Type;   *)
(* the same request with any other project_id header of its own, handled   *)
(* in the same state, produces the same upstream call.                     *)
C7_UpstreamCall ==
    \A x \in Handled :
        x.call.issued =>
            /\ x.call.url = BLOCKFROST_BASE_URL \o ValidatedPath(x.req)
            /\ x.call.method = x.req.method
            /\ DOMAIN x.call.headers = {"project_id", "Content-Type"}
            /\ x.call.headers["project_id"] = env
            /\ x.call.headers["Content-Type"] \in {"application/json", "application/cbor"}
            /\ x.call.body \in {NullBody, Bytes(x.req.body), Bytes(Utf8RoundTrip(x.req.body))}
            /\ \A pid \in ClientProjectIds :
                   handleAt([x.req EXCEPT !.projectId = pid], x.before, x.at).call = x.call

\* A forwarded request that carried a project_id header of its own
C7_Witness ==
    \E x \in Handled :
        /\ x.call.issued
        /\ x.req.projectId = "attacker-project-id"
        /\ x.call.headers["project_id"] = SECRET

-----------------------------------------------------------------------------
\* A body the proxy wrote carries the value v.
BodyCarries(body, v) ==
    CASE body.kind = "text" -> body.text = v
      [] body.kind = "json" -> \E k \in DOMAIN body.obj : body.obj[k] = v
      [] OTHER -> FALSE

(* C8: no response carries the upstream credential, in a header or in a    *)
(* body the proxy wrote, on any path through the handler.                  *)
C8_CredentialStaysInside ==
    (Finished /\ Truthy(env)) =>
        /\ \A h \in DOMAIN exch.resp.headers : exch.resp.headers[h] # env
        /\ ~BodyCarries(exch.resp.body, env)

\* The error path of a call that carried the credential
C8_Witness ==
    /\ Finished
    /\ exch.stage = "catch"
    /\ exch.call.issued
    /\ exch.call.headers["project_id"] = SECRET
    /\ exch.resp.status = 500

(* C9: when the fetch throws, the client gets 500 with a JSON error body   *)
(* that holds nothing of the exception.                                    *)
C9_GenericError ==
    (Finished /\ exch.stage = "catch") =>
        /\ exch.resp.status = 500
        /\ exch.resp.body.kind = "json"
        /\ \A m \in ErrorMessages : ~BodyCarries(exch.resp.body, m)

(* C10: an accepted POST to the submission endpoint goes upstream with     *)
(* Content-Type application/cbor and with the inbound body, byte for byte. *)
C10_SubmitVerbatim ==
    \A x \in Handled :
        (x.call.issued /\ x.req.method = "POST" /\ IsSubmission(x.req)) =>
            /\ x.call.headers["Content-Type"] = "application/cbor"
            /\ x.call.body = Bytes(x.req.body)

-----------------------------------------------------------------------------
(* C11: when the upstream answers, the client gets the upstream's status   *)
(* and body, and the upstream's Content-Type if it sent one, otherwise     *)
(* application/json.                                                       *)
C11_Relay ==
    (Finished /\ exch.stage = "relay") =>
        /\ exch.resp.status = exch.up.status
        /\ exch.resp.body = Bytes(exch.up.body)
        /\ exch.resp.headers["Content-Type"] =
              (IF exch.up.contentType # Null THEN exch.up.contentType
               ELSE "application/json")

-----------------------------------------------------------------------------
CorsHeaderNames ==
    {ACAO, "Access-Control-Allow-Methods", "Access-Control-Allow-Headers",
     "Access-Control-Max-Age", "Access-Control-Allow-Credentials"}

\* What a preflight answer tells the browser: origin, methods, headers, lifetime
PreflightHeaderNames == CorsHeaderNames \ {"Access-Control-Allow-Credentials"}

\* A refusal: 403, no CORS header, and a body that names no allowed origin
Refusal(resp) ==
    /\ resp.status = 403
    /\ DOMAIN resp.headers \cap CorsHeaderNames = {}
    /\ \A o \in AllowList : ~BodyCarries(resp.body, o)

(* C12 (as stated): an OPTIONS request whose Origin is on the allow-list   *)
(* gets 204 with Access-Control-Allow-Origin, the allowed methods, the     *)
(* allowed headers and Access-Control-Max-Age; one whose Origin is not on   *)
(* the list, or absent, gets 403 with no CORS header and a body that names  *)
(* no allowed origin.                                                      *)
C12_Original ==
    (Finished /\ exch.req.method = "OPTIONS") =>
        IF ListedOrigin(exch.req)
        THEN /\ exch.resp.status = 204
             /\ PreflightHeaderNames \subseteq DOMAIN exch.resp.headers
        ELSE Refusal(exch.resp)

(* C12 (amended): as stated for the workers of DEPLOYMENT_GUIDE.md and     *)
(* part_000.  cloudflare-worker.js without its API key answers 500 without *)
(* any header; configured, it refuses a foreign Origin as stated, answers  *)
(* a listed Origin with 204 and the four headers, and answers a request    *)
(* without Origin with 204 and the allowed methods and headers only.       *)
C12_Preflight ==
    (Finished /\ exch.req.method = "OPTIONS") =>
        IF Unconfigured
        THEN exch.resp.status = 500 /\ exch.resp.headers = EmptyObj
        ELSE IF ListedOrigin(exch.req)
        THEN /\ exch.resp.status = 204
             /\ exch.resp.body = NullBody
             /\ PreflightHeaderNames \subseteq DOMAIN exch.resp.headers
             /\ exch.resp.headers[ACAO] = exch.req.origin
        ELSE IF variant = "cfw" /\ exch.req.origin = Null
        THEN /\ exch.resp.status = 204
             /\ exch.resp.body = NullBody
             /\ DOMAIN exch.resp.headers =
                   {"Access-Control-Allow-Methods", "Access-Control-Allow-Headers"}
        ELSE Refusal(exch.resp)

\* A preflight without Origin, answered 204 by cloudflare-worker.js
C12_Witness ==
    /\ Finished
    /\ exch.req.method = "OPTIONS"
    /\ variant = "cfw"
    /\ exch.req.origin = Null
    /\ exch.resp.status = 204

-----------------------------------------------------------------------------
\* A Map in which the key has used up its window that began at time t.
Saturated(key, t) ==
    key :> (IF variant = "cfw"
            THEN [count |-> MaxRequests, resetTime |-> t + WindowMs]
            ELSE [windowStart |-> t, count |-> MaxRequests])

(* C13: an OPTIONS request leaves the rate limit Map as it was and issues   *)
(* no upstream call, and its response is the same whatever the Map holds    *)
(* (empty, or the key's window used up) and whatever the path is.           *)
C13_PreflightFrame ==
    \A x \in Handled :
        x.req.method = "OPTIONS" =>
            /\ x.after = x.before
            /\ ~x.call.issued
            /\ x.stage \in {"preflight", "config"}
            /\ handleAt(x.req, EmptyObj, x.at).resp = x.resp
            /\ handleAt(x.req, Saturated(LimiterKey(x.req), x.at), x.at).resp = x.resp
            /\ \A p \in Paths :
                  handleAt([x.req EXCEPT !.path = p], x.before, x.at).resp = x.resp

\* A preflight for a path off the whitelist, from a key whose window is used
\* up, answered 204
C13_Witness ==
    /\ Finished
    /\ exch.req.method = "OPTIONS"
    /\ exch.resp.status = 204
    /\ ~FilterAccepts(exch.req)
    /\ LimiterKey(exch.req) \in DOMAIN exch.before
    /\ exch.before[LimiterKey(exch.req)].count >= MaxRequests
    /\ rateLimitStore = exch.before

-----------------------------------------------------------------------------
SecurityHeaderNames ==
    {"X-Content-Type-Options", "X-Frame-Options", "Referrer-Policy",
     "Permissions-Policy", "Content-Security-Policy"}

(* C14: every response to a request of an allowed origin carries the       *)
(* security headers X-Content-Type-Options: nosniff, X-Frame-Options: DENY, *)
(* Referrer-Policy, Permissions-Policy and Content-Security-Policy.         *)
C14_SecurityHeaders ==
    (Finished /\ ListedOrigin(exch.req)) =>
        /\ SecurityHeaderNames \subseteq DOMAIN exch.resp.headers
        /\ exch.resp.headers["X-Content-Type-Options"] = "nosniff"
        /\ exch.resp.headers["X-Frame-Options"] = "DENY"

-----------------------------------------------------------------------------
(* C15: a response that has Access-Control-Allow-Origin has it equal to    *)
(* the Origin of its request, and that origin is on the allow-list: the    *)
(* header is never a wildcard and never answers a request without Origin.  *)
C15_AllowOriginEchoes ==
    (Finished /\ ACAO \in DOMAIN exch.resp.headers) =>
        /\ exch.req.origin # Null
        /\ exch.resp.headers[ACAO] = exch.req.origin
        /\ exch.req.origin \in AllowList
        /\ exch.resp.headers[ACAO] # "*"

\* A rate-limited request of a listed origin: the 429 echoes the origin.
C15_Witness ==
    /\ Finished
    /\ exch.stage = "rate"
    /\ ACAO \in DOMAIN exch.resp.headers
    /\ exch.resp.headers[ACAO] = "https://gs1973.github.io"

-----------------------------------------------------------------------------
\* The requests of the key's history that passed the limiter in the window
\* of the i-th
AdmittedWith(es, i) ==
    { j \in 1..Len(es) : es[j].ok /\ Place(es, j).start = Place(es, i).start }

(* C16: with invocations running concurrently on one Map, at most          *)
(* MaxRequests requests of a key pass the limiter in one window, and no two *)
(* suspended invocations of a key took the same slot of a window.           *)
C16_AtomicCount ==
    /\ \A k \in HistKeys :
          LET es == EventsOf(k, hist)
          IN  \A i \in 1..Len(es) : Cardinality(AdmittedWith(es, i)) <= MaxRequests
    /\ \A x, y \in inflight :
          (x # y /\ variant # "p0" /\ LimiterKey(x.req) = LimiterKey(y.req)) =>
              x.after[LimiterKey(x.req)] # y.after[LimiterKey(y.req)]

\* Two invocations of one key are suspended, they hold the window's slots,
\* and a third request of the key has just been turned away.
C16_Witness ==
    /\ hist # <<>>
    /\ ~hist[Len(hist)].ok
    /\ hist[Len(hist)].t = now
    /\ \E x, y \in inflight :
          /\ x # y
          /\ LimiterKey(x.req) = hist[Len(hist)].key
          /\ LimiterKey(y.req) = hist[Len(hist)].key
          /\ now - x.at <= WindowMs
          /\ now - y.at <= WindowMs

-----------------------------------------------------------------------------
\* The requests i..j of a key's history that passed the limiter
AdmittedIn(es, i, j) == { n \in i..j : es[n].ok }

(* C17 (as stated): a burst across a window boundary is admitted whole:    *)
(* 2 * MaxRequests requests of a key that come inside an interval shorter   *)
(* than WindowMs, the second half of them opening a new window, all pass.   *)
C17_Original ==
    \A k \in HistKeys :
        LET es == EventsOf(k, hist)
        IN  \A i \in 1..Len(es) :
                LET last == i + 2 * MaxRequests - 1
                IN  (/\ last <= Len(es)
                     /\ es[last].t - es[i].t < WindowMs
                     /\ Place(es, i + MaxRequests).n = 1)
                    => AdmittedIn(es, i, last) = i..last

(* C17 (amended): in an interval of length at most WindowMs at most        *)
(* 2 * MaxRequests - 1 requests of a key pass the limiter: a window opens   *)
(* with an admitted request, and the next window opens more than WindowMs   *)
(* after it.                                                               *)
C17_BurstBound ==
    \A k \in HistKeys :
        LET es == EventsOf(k, hist)
        IN  \A i \in 1..Len(es) : \A j \in i..Len(es) :
                es[j].t - es[i].t <= WindowMs =>
                    Cardinality(AdmittedIn(es, i, j)) <= 2 * MaxRequests - 1

\* The bound is reached: MaxRequests - 1 at the end of one window and
\* MaxRequests at the start of the next, inside an interval shorter than
\* WindowMs.
C17_Witness ==
    \E k \in HistKeys :
        LET es == EventsOf(k, hist)
        IN  \E i \in 1..Len(es) : \E j \in i..Len(es) :
                /\ es[j].t - es[i].t < WindowMs
                /\ Cardinality(AdmittedIn(es, i, j)) = 2 * MaxRequests - 1
                /\ Place(es, i).start # Place(es, j).start

-----------------------------------------------------------------------------
(* C18: the response to a request the rate limiter rejected has status 429 *)
(* and a Retry-After header.                                               *)
C18_RetryAfter ==
    (Finished /\ exch.stage = "rate") =>
        /\ exch.resp.status = 429
        /\ "Retry-After" \in DOMAIN exch.resp.headers

-----------------------------------------------------------------------------
\* The byte ceiling of a POST body, as the specification configures one
BodyCeiling == 1

(* C19: a POST request whose body is longer than the ceiling, and which    *)
(* the gate, the limiter and the filter let through, is answered 413 and   *)
(* not forwarded.                                                          *)
C19_BodyCeiling ==
    \A x \in Handled :
        (/\ x.req.method = "POST"
         /\ Len(x.req.body) > BodyCeiling
         /\ ReachesFilter(x)
         /\ FilterAccepts(x.req))
        => (x.resp.status = 413 /\ ~x.call.issued)

-----------------------------------------------------------------------------
(* C20: without BLOCKFROST_API_KEY in the environment every request is     *)
(* answered 500 with a diagnostic, and no upstream call is issued.         *)
C20_FailFast ==
    env = Undefined =>
        /\ \A x \in Handled : ~x.call.issued
        /\ Finished =>
              /\ exch.resp.status = 500
              /\ exch.resp.body # NullBody

-----------------------------------------------------------------------------
\* The inbound surface: the lookups, and the submission path.
SurfaceLookups ==
    { <<"/", "accounts", "/", "stake", "1x">>,
      <<"/", "pools", "/", "pool", "1x">>,
      <<"/", "pools", "/", "pool", "1x", "/", "metadata">>,
      <<"/", "addresses", "/", "addr", "1x", "/", "utxos">>,
      <<"/", "epochs", "/", "latest", "/", "parameters">> }

SurfaceSubmit == <<"/", "tx", "/", "submit">>

\* The request is one of the inbound surface, with the method listed for it.
OnSurface(request) ==
    \/ request.method = "GET" /\ request.path \in SurfaceLookups
    \/ request.method = "POST" /\ request.path = SurfaceSubmit

(* C21: a request for a path of the inbound surface with the method listed *)
(* for it, from a listed origin and within budget, is forwarded upstream:  *)
(* GET /accounts/{stakeId}, GET /pools/{poolId}, GET                       *)
(* /pools/{poolId}/metadata, GET /addresses/{addr}/utxos, GET              *)
(* /epochs/latest/parameters and POST /tx/submit.                          *)
C21_SurfaceAccepted ==
    \A x \in Handled :
        ( /\ OnSurface(x.req)
          /\ ~Unconfigured
          /\ ListedOrigin(x.req)
          /\ LimiterAccepts(x.before, LimiterKey(x.req), x.at) ) =>
            x.call.issued
-----------------------------------------------------------------------------
\* The start of the window a record stands for: cloudflare-worker.js keeps
\* the end of the window (resetTime), the other limiter its start.
WindowStartOf(record) ==
    IF variant = "cfw" THEN record.resetTime - WindowMs ELSE record.windowStart

\* The invocation reached the rate limiter.
ReachesLimiter(x) ==
    /\ variant # "p0"
    /\ x.req.method # "OPTIONS"
    /\ ~Unconfigured
    /\ GateAccepts(x.req)

\* The limiter found a record of the key of the invocation.
HasRecord(x) == LimiterKey(x.req) \in DOMAIN x.before

\* The record of the key starts a new window at the time of the invocation.
Restarted(x) ==
    LET after == x.after[LimiterKey(x.req)]
    IN  after.count = 1 /\ WindowStartOf(after) = x.at

\* The record of the key counts one more in the same window.
Incremented(x) ==
    LET before == x.before[LimiterKey(x.req)]
        after == x.after[LimiterKey(x.req)]
    IN  /\ after.count = before.count + 1
        /\ WindowStartOf(after) = WindowStartOf(before)

\* The window of the record the limiter found has run out.
Expired(x) == x.at > WindowStartOf(x.before[LimiterKey(x.req)]) + WindowMs

-----------------------------------------------------------------------------
\* The limiter of the deployed worker: the Map after the call, and whether
\* the request passes.
Limit(store, key, t) ==
    IF variant = "cfw"
    THEN LET r == checkRateLimit(store, key, t) IN [store |-> r.store, ok |-> r.result]
    ELSE LET r == isRateLimited(store, key, t) IN [store |-> r.store, ok |-> ~r.result]

\* The Map after the limiter has seen the first i of the requests es and
\* nothing else.
RECURSIVE Alone(_, _)
Alone(es, i) ==
    IF i = 0 THEN EmptyObj
    ELSE Limit(Alone(es, i - 1), es[i].key, es[i].t).store

(* C23: a request with key k changes the record of k only, every other     *)
(* record of the Map stays as it was; and every decision on a request of k *)
(* is the decision the limiter takes when it has seen the earlier requests *)
(* of k and no other traffic, as is the record it keeps for k.             *)
C23_PerKey ==
    /\ \A x \in Handled :
          \A k \in (DOMAIN x.before \cup DOMAIN x.after) \ {LimiterKey(x.req)} :
              /\ k \in DOMAIN x.before
              /\ k \in DOMAIN x.after
              /\ x.after[k] = x.before[k]
    /\ \A k \in HistKeys :
          LET es == EventsOf(k, hist)
          IN  /\ \A i \in 1..Len(es) :
                    es[i].ok = Limit(Alone(es, i - 1), k, es[i].t).ok
              /\ inflight = {} =>
                    /\ k \in DOMAIN rateLimitStore
                    /\ rateLimitStore[k] = Alone(es, Len(es))[k]

\* A key is rejected although another key, whose requests came in between,
\* has passed and has a record of its own.
C23_Witness ==
    /\ Finished
    /\ exch.stage = "rate"
    /\ hist # <<>>
    /\ LET k == hist[Len(hist)].key
       IN  /\ k = LimiterKey(exch.req)
           /\ \E i, j \in 1..Len(hist) :
                 /\ j < i
                 /\ hist[j].key = k
                 /\ hist[i].key # k
                 /\ hist[i].ok
                 /\ hist[i].key \in DOMAIN exch.before
                 /\ exch.after[hist[i].key] = exch.before[hist[i].key]
-----------------------------------------------------------------------------
\* The Map of cloudflare-worker.js after checkRateLimit has seen the first i
\* requests of h.
RECURSIVE StoreOfCheckRateLimit(_, _)
StoreOfCheckRateLimit(h, i) ==
    IF i = 0 THEN EmptyObj
    ELSE checkRateLimit(StoreOfCheckRateLimit(h, i - 1), h[i].key, h[i].t).store

\* The Map of DEPLOYMENT_GUIDE.md after isRateLimited has seen the first i
\* requests of h.
RECURSIVE StoreOfIsRateLimited(_, _)
StoreOfIsRateLimited(h, i) ==
    IF i = 0 THEN EmptyObj
    ELSE isRateLimited(StoreOfIsRateLimited(h, i - 1), h[i].key, h[i].t).store

(* C26: fed the same requests (key, time), with the same MaxRequests and   *)
(* WindowMs, checkRateLimit and isRateLimited take the same decision on    *)
(* every request, which is also the decision of the deployed worker: one   *)
(* allows exactly the requests the other does not limit.                   *)
C26_DecisionEquivalent ==
    \A i \in 1..Len(hist) :
        LET passes == checkRateLimit(StoreOfCheckRateLimit(hist, i - 1),
                                     hist[i].key, hist[i].t).result
            limited == isRateLimited(StoreOfIsRateLimited(hist, i - 1),
                                     hist[i].key, hist[i].t).result
        IN  /\ passes <=> ~limited
            /\ hist[i].ok <=> passes

\* checkRateLimit has counted a key beyond MaxRequests, where isRateLimited
\* stopped at MaxRequests, and both let the key pass again after the window.
C26_Witness ==
    /\ hist # <<>>
    /\ hist[Len(hist)].ok
    /\ LET k == hist[Len(hist)].key
           n == Len(hist) - 1
       IN  /\ k \in DOMAIN StoreOfCheckRateLimit(hist, n)
           /\ k \in DOMAIN StoreOfIsRateLimited(hist, n)
           /\ StoreOfCheckRateLimit(hist, n)[k].count > MaxRequests + 1
           /\ StoreOfIsRateLimited(hist, n)[k].count = MaxRequests
-----------------------------------------------------------------------------
(* cardano-delegation.js: the steps of the delegation module.              *)

\* connectWallet: `walletApi = await window.cardano[walletName].enable()`
WalletEnabled(walletName) ==
    /\ delegation.walletApi # walletName
    /\ delegation' = [delegation EXCEPT !.walletApi = walletName,
                                        !.connectedWallet = walletName]
    /\ UNCHANGED <<workerVars, calls, app, connects, delegs>>

\* connectWallet: `lucid = await Lucid.new(...)`
LucidCreated ==
    /\ delegation.walletApi # Null
    /\ delegation.lucid = Null
    /\ delegation' = [delegation EXCEPT !.lucid = "lucid"]
    /\ UNCHANGED <<workerVars, calls, app, connects, delegs>>

\* The delegate button is clicked: delegateToPool runs up to its first await.
DelegateToPoolCalled(c) ==
    /\ calls[c].pc = "idle"
    /\ \A b \in 1..(c - 1) : calls[b].pc # "idle"
    /\ LET entry == delegateToPool(delegation)
       IN  /\ calls' = [calls EXCEPT ![c].pc = entry.pc,
                                     ![c].message = entry.message,
                                     ![c].during = Running(calls)]
           /\ delegation' = [delegation EXCEPT !.isDelegating = entry.isDelegating]
    /\ UNCHANGED <<workerVars, app, connects, delegs>>

\* The call leaves through the outer catch block.
Caught(c, error) ==
    LET caught == catchDelegation(error, calls[c].message)
    IN  /\ calls' = [calls EXCEPT ![c].pc = "failed", ![c].message = caught.message]
        /\ delegation' = [delegation EXCEPT !.isDelegating = caught.isDelegating]

\* The promise a call awaits is fulfilled (value: the reward address, Null
\* for none) and the call runs to its next await or to its return.
AwaitResolves(c, value) ==
    /\ calls[c].pc \in Active
    /\ value = Null => calls[c].pc = "rewardAddress"
    /\ CASE calls[c].pc = "lucidNew" ->
              /\ calls' = [calls EXCEPT ![c].pc = "rewardAddress"]
              /\ delegation' = [delegation EXCEPT !.lucid = "lucid"]
         [] calls[c].pc = "rewardAddress" /\ value = Null ->
              /\ calls' = [calls EXCEPT ![c].pc = "noReward",
                                        ![c].message = "No reward address found."]
              /\ delegation' = [delegation EXCEPT !.isDelegating = FALSE]
         [] calls[c].pc = "rewardAddress" /\ value # Null ->
              /\ calls' = [calls EXCEPT ![c].pc = "complete",
                                        ![c].message = "Building transaction..."]
              /\ UNCHANGED delegation
         [] calls[c].pc = "complete" ->
              /\ calls' = [calls EXCEPT
                              ![c].pc = "sign",
                              ![c].did = @ \cup (IF calls[c].attempt = 2
                                                 THEN {"register", "build"}
                                                 ELSE {"build"}),
                              ![c].message = "Please sign the transaction in your wallet..."]
              /\ UNCHANGED delegation
         [] calls[c].pc = "sign" ->
              /\ calls' = [calls EXCEPT ![c].pc = "submit", ![c].did = @ \cup {"sign"}]
              /\ UNCHANGED delegation
         [] calls[c].pc = "submit" ->
              /\ calls' = [calls EXCEPT ![c].pc = "success",
                                        ![c].did = @ \cup {"submit"},
                                        ![c].message = "Success!"]
              /\ delegation' = [delegation EXCEPT !.isDelegating = FALSE]
    /\ UNCHANGED <<workerVars, app, connects, delegs>>

\* The promise a call awaits is rejected.
AwaitRejects(c, error) ==
    /\ calls[c].pc \in Active
    /\ IF /\ calls[c].pc \in {"complete", "sign", "submit"}
          /\ calls[c].attempt = 1
       THEN IF TriesRegistration(error)
            THEN /\ calls' = [calls EXCEPT
                                 ![c].pc = "complete", ![c].attempt = 2,
                                 ![c].message = "Registering stake key and delegating..."]
                 /\ UNCHANGED delegation
            ELSE Caught(c, Rethrown(error))
       ELSE Caught(c, error)
    /\ UNCHANGED <<workerVars, app, connects, delegs>>

NextDelegation ==
    \/ \E walletName \in DelegationWallets : WalletEnabled(walletName)
    \/ LucidCreated
    \/ \E c \in 1..MaxCalls : DelegateToPoolCalled(c)
    \/ \E c \in 1..MaxCalls, value \in {Null, "stake1u"} : AwaitResolves(c, value)
    \/ \E c \in 1..MaxCalls, error \in Rejections : AwaitRejects(c, error)

\* One page on one deployment.
InitPage == Init /\ variant = "dg" /\ env = SECRET

SpecDelegation == InitPage /\ [][NextDelegation]_vars

\* Every awaited wallet or library call resolves or rejects in the end.
SpecDelegationLive ==
    /\ SpecDelegation
    /\ WF_vars(\E c \in 1..MaxCalls :
                  \/ \E value \in {Null, "stake1u"} : AwaitResolves(c, value)
                  \/ \E error \in Rejections : AwaitRejects(c, error))

-----------------------------------------------------------------------------
(* C24: at most one call of delegateToPool is between `isDelegating =      *)
(* true` and its reset, in every interleaving of calls; the flag is set    *)
(* exactly while such a call is there; and a call made while another is    *)
(* running shows 'Delegation already in progress', has built, signed and   *)
(* submitted nothing, and was made while a call was running.               *)
C24_OneDelegation ==
    /\ Cardinality(Running(calls)) <= 1
    /\ delegation.isDelegating <=> Running(calls) # {}
    /\ \A c \in 1..MaxCalls :
          /\ calls[c].during # {} <=> calls[c].pc = "refused"
          /\ calls[c].pc = "refused" =>
                /\ calls[c].message = "Delegation already in progress. Please wait..."
                /\ calls[c].did = {}

\* A call is refused while another is waiting for the wallet's signature.
C24_Witness ==
    \E c, r \in 1..MaxCalls :
        /\ calls[c].pc = "sign"
        /\ calls[r].pc = "refused"
        /\ calls[r].during = {c}

(* C25: every call of delegateToPool that has set isDelegating resets it   *)
(* when it returns, on every exit path: the flag is false whenever no call *)
(* is running, so a call made after a delegation has finished is never     *)
(* refused; and, the awaited calls settling, a flag that is set is reset.  *)
C25_FlagReleased ==
    /\ [](Running(calls) = {} => ~delegation.isDelegating)
    /\ [](\A c \in 1..MaxCalls : calls[c].pc = "refused" => calls[c].during # {})
    /\ (delegation.isDelegating ~> ~delegation.isDelegating)

\* After a call has failed in its second transaction attempt, the next call
\* is under way.
C25_Witness ==
    \E a, c \in 1..MaxCalls :
        /\ calls[a].pc = "failed"
        /\ calls[a].attempt = 2
        /\ calls[c].pc \in Active
        /\ calls[c].during = {}
-----------------------------------------------------------------------------
(* app.js: the steps of the page.  A handler runs from one await to the    *)
(* next without interruption; the continuations that follow one another    *)
(* through already settled promises are one step.  The wallet buttons are  *)
(* clicked while their container is shown, the delegate button while the   *)
(* delegate action container is shown.                                     *)

\* The places a call of handleDelegation waits at, in buildAndSignDelegation:
\* the protocol parameters, Lucid.new, and the transaction's complete(),
\* sign().complete() and submit().
Delegating == {"params", "lucidNew", "complete", "sign", "submit"}

\* delegateBtn is clicked.
DelegateBtnClicked ==
    /\ app' = [app EXCEPT !.walletContainerVisible = ~@,
                          !.delegateActionVisible = FALSE]
    /\ UNCHANGED <<workerVars, delegation, calls, connects, delegs>>

\* A wallet button is clicked: handleWalletConnect up to `await enable()`.
WalletBtnClicked(c, walletName) ==
    /\ app.walletContainerVisible
    /\ connects[c].pc = "idle"
    /\ \A b \in 1..(c - 1) : connects[b].pc # "idle"
    /\ app' = [app EXCEPT !.delegateActionVisible = FALSE]
    /\ connects' = [connects EXCEPT
                       ![c].walletName = walletName,
                       ![c].pc = IF isWalletInstalled(walletName) THEN "enable"
                                 ELSE "notInstalled"]
    /\ UNCHANGED <<workerVars, delegation, calls, delegs>>

\* enable() resolves: connectWallet returns true and handleWalletConnect
\* goes on to getStakeAddress, which asks walletApi for its reward addresses.
EnableResolves(c) ==
    /\ connects[c].pc = "enable"
    /\ app' = [app EXCEPT !.walletApi = ApiOf(connects[c].walletName),
                          !.connectedWallet = connects[c].walletName]
    /\ connects' = [connects EXCEPT ![c].pc = "rewardAddresses",
                                    ![c].asked = ApiOf(connects[c].walletName)]
    /\ UNCHANGED <<workerVars, delegation, calls, delegs>>

\* enable() rejects: connectWallet returns false.
EnableRejects(c) ==
    /\ connects[c].pc = "enable"
    /\ connects' = [connects EXCEPT ![c].pc = "declined"]
    /\ UNCHANGED <<workerVars, delegation, calls, app, delegs>>

\* getRewardAddresses() resolves (found: it has an address): the stake
\* address is stored and checkDelegationStatus fetches its account.
RewardAddressesResolve(c, found) ==
    /\ connects[c].pc = "rewardAddresses"
    /\ IF found
       THEN /\ app' = [app EXCEPT !.currentStakeAddress = StakeOf(connects[c].asked)]
            /\ connects' = [connects EXCEPT ![c].pc = "status",
                                            ![c].stake = StakeOf(connects[c].asked)]
       ELSE /\ connects' = [connects EXCEPT ![c].pc = "error"]
            /\ UNCHANGED app
    /\ UNCHANGED <<workerVars, delegation, calls, delegs>>

\* getRewardAddresses() rejects: the catch block of handleWalletConnect.
RewardAddressesReject(c) ==
    /\ connects[c].pc = "rewardAddresses"
    /\ connects' = [connects EXCEPT ![c].pc = "error"]
    /\ UNCHANGED <<workerVars, delegation, calls, app, delegs>>

\* The fetch of the account settles and handleWalletConnect runs to its end.
StatusSettles(c, response) ==
    /\ connects[c].pc = "status"
    /\ LET status == checkDelegationStatus(response)
       IN  IF status.threw
           THEN /\ connects' = [connects EXCEPT ![c].pc = "error",
                                                ![c].response = response]
                /\ UNCHANGED app
           ELSE /\ connects' = [connects EXCEPT
                                   ![c].pc = IF status.value.toOurPool THEN "ours"
                                             ELSE IF status.value.newAccount
                                             THEN "newAccount"
                                             ELSE "offered",
                                   ![c].response = response]
                /\ app' = [app EXCEPT
                              !.currentDelegationStatus = status.value,
                              !.statusOf = connects[c].stake,
                              !.walletContainerVisible = FALSE,
                              !.delegateActionVisible =
                                  IF status.value.toOurPool \/ status.value.newAccount
                                  THEN @ ELSE TRUE]
    /\ UNCHANGED <<workerVars, delegation, calls, delegs>>

\* delegateToPoolBtn is clicked: handleDelegation, and buildAndSignDelegation
\* up to its fetch of the protocol parameters.
DelegateToPoolBtnClicked(d) ==
    /\ app.delegateActionVisible
    /\ delegs[d].pc = "idle"
    /\ \A b \in 1..(d - 1) : delegs[b].pc # "idle"
    /\ delegs' = [delegs EXCEPT
                     ![d] = IF app.walletApi = NoApi \/ app.currentStakeAddress = NoAddress
                            THEN [@ EXCEPT !.pc = "notConnected"]
                            ELSE IF app.currentDelegationStatus = NullObject
                            THEN [@ EXCEPT !.pc = "failed"]
                            ELSE [@ EXCEPT
                                     !.pc = "params",
                                     !.stakeAddress = app.currentStakeAddress,
                                     !.alreadyRegistered =
                                         app.currentDelegationStatus.delegated,
                                     !.statusOf = app.statusOf]]
    /\ UNCHANGED <<workerVars, delegation, calls, app, connects>>

\* The promise buildAndSignDelegation awaits is fulfilled: after Lucid.new
\* the transaction is built from what walletApi answers.
DelegationResolves(d) ==
    /\ delegs[d].pc \in Delegating
    /\ delegs' = [delegs EXCEPT
                     ![d].pc = CASE delegs[d].pc = "params" -> "lucidNew"
                                 [] delegs[d].pc = "lucidNew" -> "complete"
                                 [] delegs[d].pc = "complete" -> "sign"
                                 [] delegs[d].pc = "sign" -> "submit"
                                 [] OTHER -> "success",
                     ![d].builtWith = IF delegs[d].pc = "lucidNew" THEN app.walletApi
                                      ELSE @]
    /\ app' = IF delegs[d].pc = "submit"
              THEN [app EXCEPT !.delegateActionVisible = FALSE]
              ELSE app
    /\ UNCHANGED <<workerVars, delegation, calls, connects>>

\* The promise buildAndSignDelegation awaits is rejected: its catch block.
DelegationRejects(d) ==
    /\ delegs[d].pc \in Delegating
    /\ delegs' = [delegs EXCEPT ![d].pc = "failed"]
    /\ UNCHANGED <<workerVars, delegation, calls, app, connects>>

NextApp ==
    \/ DelegateBtnClicked
    \/ \E c \in 1..MaxConnects, walletName \in WALLETS : WalletBtnClicked(c, walletName)
    \/ \E c \in 1..MaxConnects : EnableResolves(c)
    \/ \E c \in 1..MaxConnects : EnableRejects(c)
    \/ \E c \in 1..MaxConnects, found \in BOOLEAN : RewardAddressesResolve(c, found)
    \/ \E c \in 1..MaxConnects : RewardAddressesReject(c)
    \/ \E c \in 1..MaxConnects, response \in AccountResponses \cup {NetworkFailure} :
          StatusSettles(c, response)
    \/ \E d \in 1..MaxDelegs : DelegateToPoolBtnClicked(d)
    \/ \E d \in 1..MaxDelegs : DelegationResolves(d)
    \/ \E d \in 1..MaxDelegs : DelegationRejects(d)

SpecApp == InitPage /\ [][NextApp]_vars

-----------------------------------------------------------------------------
\* The status object of a new account
NewAccountStatus == Status(FALSE, FALSE, Null, TRUE)

(* C27: a lookup the proxy answers with status 404, whatever the body, is  *)
(* a new account: checkDelegationStatus returns {delegated: false,         *)
(* toOurPool: false, newAccount: true} and handleWalletConnect does not    *)
(* end in its catch block.                                                 *)
C27_NotFoundIsNewAccount ==
    \A c \in 1..MaxConnects :
        connects[c].response.status = "404" =>
            /\ connects[c].pc = "newAccount"
            /\ checkDelegationStatus(connects[c].response) = Returns(NewAccountStatus)

(* C28: while the delegate action container is shown, walletApi and        *)
(* currentStakeAddress are set and currentDelegationStatus is a status     *)
(* with neither toOurPool nor newAccount.                                  *)
C28_ActionShownOnlyWhenDelegable ==
    app.delegateActionVisible =>
        /\ app.walletApi # NoApi
        /\ app.currentStakeAddress # NoAddress
        /\ app.currentDelegationStatus # NullObject
        /\ ~app.currentDelegationStatus.toOurPool
        /\ ~app.currentDelegationStatus.newAccount

(* C29: the transaction of handleDelegation is built for the stake address *)
(* of the wallet API that is in walletApi when it is built, and with the   *)
(* delegation status fetched for that address.                             *)
C29_BuiltFromOneWallet ==
    \A d \in 1..MaxDelegs :
        delegs[d].builtWith # NoApi =>
            /\ delegs[d].stakeAddress = StakeOf(delegs[d].builtWith)
            /\ delegs[d].statusOf = delegs[d].stakeAddress

(* C30: at most one call of handleDelegation is inside                     *)
(* buildAndSignDelegation at any time.                                     *)
C30_OneTransaction ==
    Cardinality({ d \in 1..MaxDelegs : delegs[d].pc \in Delegating }) <= 1
=============================================================================
